---- MODULE Spec2Model ----
(***************************************************************************)
(* Order placement, order editing and stock reconciliation of the          *)
(* akshayam_wellness backend (routers/orders.py, routers/products.py).     *)
(*                                                                         *)
(* The document store is the record db: the products, orders, users and    *)
(* system_settings collections.  A request handler is a frame (its local   *)
(* variables and its position pc) that advances by one store operation per *)
(* Step; Run executes a handler to its response.  The sequential           *)
(* specification Spec runs one whole handler per action.                   *)
(***************************************************************************)
EXTENDS Integers, Sequences, FiniteSets, TLC

VARIABLES db, tasks, last, initial, procs, started, mail

vars == <<db, tasks, last, initial, procs, started, mail>>

(***************************************************************************)
(* Bounds of the model.                                                    *)
(***************************************************************************)
MaxStock == 2
MaxQty == 2
MaxItems == 2
MaxOrders == 2
MaxUsers == 2
MinOrderValue == 2
MaxRequests == 3
MaxFaultStep == 12

(***************************************************************************)
(* Identifiers.  Products is the set of product documents in the store;    *)
(* MissingId is a well-formed identifier of no document, BadId a string    *)
(* that is not a well-formed ObjectId.                                     *)
(***************************************************************************)
Products == {"p1"}
MissingId == "p9"
BadId == "bad"

OrderStatuses == {"pending", "confirmed", "shipped", "delivered", "cancelled"}

(***************************************************************************)
(* auth.get_password_hash / auth.verify_password: the hash of a password   *)
(* verifies exactly that password.                                         *)
(***************************************************************************)
get_password_hash(password) == <<"hash", password>>

verify_password(plain_password, hashed_password) ==
    hashed_password = get_password_hash(plain_password)

(***************************************************************************)
(* Store operations.                                                       *)
(***************************************************************************)
RECURSIVE SumTotals(_)
SumTotals(items) ==
    IF items = <<>> THEN 0 ELSE Head(items).total + SumTotals(Tail(items))

\* the units of product pid in a list of line items
RECURSIVE QuantityOf(_, _)
QuantityOf(items, pid) ==
    IF items = <<>> THEN 0
    ELSE (IF Head(items).product_id = pid THEN Head(items).quantity ELSE 0)
         + QuantityOf(Tail(items), pid)

\* ObjectId(s) raises InvalidId for a malformed string
ValidObjectId(id) == id # BadId

\* products_collection.find_one({"_id": ObjectId(pid)}): <<>> or <<doc>>
FindProduct(d, pid) ==
    IF pid \in DOMAIN d.products
    THEN <<[_id |-> pid, name |-> pid, quantity |-> d.products[pid]]>>
    ELSE <<>>

\* mutant: the decrement stops at 0
IncQuantity_Clamped(d, pid, delta) ==
    IF pid \in DOMAIN d.products
    THEN [d EXCEPT !.products[pid] = IF @ + delta < 0 THEN 0 ELSE @ + delta]
    ELSE d

\* products_collection.update_one({"_id": ...}, {"$inc": {"quantity": delta}})
IncQuantity(d, pid, delta) ==
    IF pid \in DOMAIN d.products
    THEN [d EXCEPT !.products[pid] = @ + delta]
    ELSE d

\* users_collection.find_one({"email": email}): the first match
FindUserByEmail(d, email) ==
    LET hits == {i \in 1..Len(d.users) : d.users[i].email = email}
    IN  IF hits = {} THEN <<>>
        ELSE <<d.users[CHOOSE i \in hits : \A j \in hits : i <= j]>>

\* orders_collection.find_one({"_id": ObjectId(order_id)})
FindOrder(d, order_id) ==
    LET hits == {i \in 1..Len(d.orders) : d.orders[i]._id = order_id}
    IN  IF hits = {} THEN <<>>
        ELSE <<d.orders[CHOOSE i \in hits : TRUE]>>

\* settings_collection.find_one({"key": "minimum_order_value"})
FindMinOrderSetting(d) == d.settings

(***************************************************************************)
(* Frames.                                                                 *)
(***************************************************************************)
NoResp == [code |-> 0, kind |-> "none"]

NoReq ==
    [order_id |-> 0, items |-> <<>>, user_info |-> <<>>,
     email |-> "", password |-> "", status |-> ""]

NewFrame(op, pc, req) ==
    [op |-> op, pc |-> pc, req |-> req, i |-> 1, order |-> <<>>,
     user |-> <<>>, user_id |-> 0, invalid_items |-> <<>>, total |-> 0,
     order_id |-> 0, resp |-> NoResp]

Goto(c, pc) == [c EXCEPT !.fr.pc = pc, !.fr.i = 1]

\* raise HTTPException(status_code=code, ...) or return
Respond(c, code, kind) ==
    [c EXCEPT !.fr.pc = "done", !.fr.i = 1,
              !.fr.resp = [code |-> code, kind |-> kind]]

(***************************************************************************)
(* validate_stock: the check of one requested line (the loop body).        *)
(***************************************************************************)
InvalidItem(item, available, error) ==
    [product_id |-> item.product_id, requested_quantity |-> item.quantity,
     available_quantity |-> available, error |-> error]

\* mutant: a quantity of 0 is not out of stock
OutOfStock_Strict(quantity) == quantity < 0

\* product["quantity"] <= 0
OutOfStock(quantity) == quantity <= 0

Insufficient(available, requested) == available < requested

validate_stock_item(d, item) ==
    IF ~ValidObjectId(item.product_id)
    THEN <<InvalidItem(item, 0, "Invalid product ID")>>
    ELSE LET product == FindProduct(d, item.product_id)
         IN  IF product = <<>>
             THEN <<InvalidItem(item, 0, "Product not found")>>
             ELSE IF OutOfStock(product[1].quantity)
             THEN <<InvalidItem(item, product[1].quantity, "out of stock")>>
             ELSE IF Insufficient(product[1].quantity, item.quantity)
             THEN <<InvalidItem(item, product[1].quantity, "insufficient")>>
             ELSE <<>>

\* the loop over the requested lines, then the StockValidationResponse
validate_stock(c) ==
    LET items == c.fr.req.items
    IN  IF c.fr.i <= Len(items)
        THEN [c EXCEPT !.fr.invalid_items =
                           @ \o validate_stock_item(c.db, items[c.fr.i]),
                       !.fr.i = @ + 1]
        ELSE IF c.fr.invalid_items # <<>>
        THEN Respond(c, 200, "invalid")
        ELSE Respond(c, 200, "valid")

(***************************************************************************)
(* create_order, one definition per phase of the handler.                  *)
(***************************************************************************)
\* mutant: the customer is registered before the stock validation answers
create_order_validate_WritesFirst(c) ==
    LET items == c.fr.req.items
        ui == c.fr.req.user_info[1]
    IN  IF c.fr.i <= Len(items)
        THEN [c EXCEPT !.fr.invalid_items =
                           @ \o validate_stock_item(c.db, items[c.fr.i]),
                       !.fr.i = @ + 1]
        ELSE IF c.fr.invalid_items # <<>>
        THEN Respond([c EXCEPT !.db.users =
                          Append(@, [_id |-> Len(c.db.users) + 1,
                                     name |-> ui.name, email |-> ui.email,
                                     phone |-> ui.phone,
                                     address |-> ui.address,
                                     password_hash |->
                                         get_password_hash(ui.password)])],
                     400, "stock_invalid")
        ELSE Goto(c, "c_find_user")

\* validate_stock(stock_request), then the 400 on any invalid item
create_order_validate(c) ==
    LET items == c.fr.req.items
    IN  IF c.fr.i <= Len(items)
        THEN [c EXCEPT !.fr.invalid_items =
                           @ \o validate_stock_item(c.db, items[c.fr.i]),
                       !.fr.i = @ + 1]
        ELSE IF c.fr.invalid_items # <<>>
        THEN Respond(c, 400, "stock_invalid")
        ELSE Goto(c, "c_find_user")

\* existing_user = await users_collection.find_one({"email": ...})
create_order_find_user(c) ==
    Goto([c EXCEPT !.fr.user =
                       FindUserByEmail(c.db, c.fr.req.user_info[1].email)],
         "c_upsert_user")

SetPasswordHash(users, id, hash) ==
    [k \in 1..Len(users) |->
        IF users[k]._id = id
        THEN [users[k] EXCEPT !.password_hash = hash]
        ELSE users[k]]

NewUserDoc(id, user_info) ==
    [_id |-> id, name |-> user_info.name, email |-> user_info.email,
     phone |-> user_info.phone, address |-> user_info.address,
     password_hash |-> get_password_hash(user_info.password)]

\* mutant: the existing user is overwritten with all of user_data
create_order_upsert_user_SetsAll(c) ==
    LET ui == c.fr.req.user_info[1]
    IN  IF c.fr.user # <<>>
        THEN Goto([c EXCEPT !.fr.user_id = c.fr.user[1]._id,
                            !.db.users =
                                [k \in 1..Len(@) |->
                                    IF @[k]._id = c.fr.user[1]._id
                                    THEN NewUserDoc(@[k]._id, ui)
                                    ELSE @[k]]],
                  "c_min_check")
        ELSE Goto([c EXCEPT !.fr.user_id = Len(c.db.users) + 1,
                            !.db.users =
                                Append(@, NewUserDoc(Len(c.db.users) + 1, ui))],
                  "c_min_check")

\* update_one of the password hash of the existing user, or insert_one
create_order_upsert_user(c) ==
    LET ui == c.fr.req.user_info[1]
    IN  IF c.fr.user # <<>>
        THEN Goto([c EXCEPT !.fr.user_id = c.fr.user[1]._id,
                            !.db.users = SetPasswordHash(@, c.fr.user[1]._id,
                                             get_password_hash(ui.password))],
                  "c_min_check")
        ELSE Goto([c EXCEPT !.fr.user_id = Len(c.db.users) + 1,
                            !.db.users =
                                Append(@, NewUserDoc(Len(c.db.users) + 1, ui))],
                  "c_min_check")

\* mutant: <= in place of <
BelowMinimum_Inclusive(setting, total_amount) ==
    setting # <<>> /\ total_amount <= setting[1].value

\* min_order_setting and total_amount < min_order_setting["value"]
BelowMinimum(setting, total_amount) ==
    setting # <<>> /\ total_amount < setting[1].value

create_order_min_check(c) ==
    LET total_amount == SumTotals(c.fr.req.items)
    IN  IF BelowMinimum(FindMinOrderSetting(c.db), total_amount)
        THEN Respond([c EXCEPT !.fr.total = total_amount], 400, "min_order")
        ELSE Goto([c EXCEPT !.fr.total = total_amount], "c_insert_order")

NewOrderDoc(id, user_id, user_info, items, total_amount) ==
    [_id |-> id, user_id |-> user_id, user_name |-> user_info.name,
     user_email |-> user_info.email, user_phone |-> user_info.phone,
     user_address |-> user_info.address, items |-> items,
     total_amount |-> total_amount, status |-> "pending",
     email_notification_failed |-> FALSE]

\* mutant: the notification is scheduled as soon as the order is inserted
create_order_insert_SchedulesEarly(c) ==
    LET id == c.db.next_order_id
    IN  Goto([c EXCEPT !.fr.order_id = id,
                       !.db.next_order_id = @ + 1,
                       !.tasks = Append(@, id),
                       !.db.orders =
                           Append(@, NewOrderDoc(id, c.fr.user_id,
                                                 c.fr.req.user_info[1],
                                                 c.fr.req.items, c.fr.total))],
             "c_decrement")

\* result = await orders_collection.insert_one(order_doc)
create_order_insert(c) ==
    LET id == c.db.next_order_id
    IN  Goto([c EXCEPT !.fr.order_id = id,
                       !.db.next_order_id = @ + 1,
                       !.db.orders =
                           Append(@, NewOrderDoc(id, c.fr.user_id,
                                                 c.fr.req.user_info[1],
                                                 c.fr.req.items, c.fr.total))],
             "c_decrement")

\* the $inc of -item.quantity per item, then add_task and the return
create_order_decrement(c) ==
    LET items == c.fr.req.items
    IN  IF c.fr.i <= Len(items)
        THEN [c EXCEPT !.db = IncQuantity(@, items[c.fr.i].product_id,
                                          -items[c.fr.i].quantity),
                       !.fr.i = @ + 1]
        ELSE Respond([c EXCEPT !.tasks = Append(@, c.fr.order_id)], 200, "ok")

create_order(c) ==
    CASE c.fr.pc = "c_validate" -> create_order_validate(c)
      [] c.fr.pc = "c_find_user" -> create_order_find_user(c)
      [] c.fr.pc = "c_upsert_user" -> create_order_upsert_user(c)
      [] c.fr.pc = "c_min_check" -> create_order_min_check(c)
      [] c.fr.pc = "c_insert_order" -> create_order_insert(c)
      [] c.fr.pc = "c_decrement" -> create_order_decrement(c)

(***************************************************************************)
(* edit_order and admin_edit_order.  The two handlers share their stock    *)
(* phases line for line; the self-service one adds the credential check    *)
(* and the minimum-order check, and they differ in the user update.        *)
(***************************************************************************)
\* mutant: shipped orders pass the gate
Editable_Shipped(status) == status \in {"pending", "confirmed", "shipped"}

\* order["status"] not in ["pending", "confirmed"] is the rejection
Editable(status) == status \in {"pending", "confirmed"}

\* find_one of the order, the 404 and the status gate
edit_load(c) ==
    LET order == FindOrder(c.db, c.fr.req.order_id)
    IN  IF order = <<>>
        THEN Respond(c, 404, "not_found")
        ELSE IF ~Editable(order[1].status)
        THEN Respond([c EXCEPT !.fr.order = order], 400, "status_gate")
        ELSE Goto([c EXCEPT !.fr.order = order],
                  IF c.fr.op = "edit_order" THEN "e_auth" ELSE "e_exist")

\* mutant: the ownership comparison is missing
edit_order_auth_NoOwnerCheck(c) ==
    LET user == FindUserByEmail(c.db, c.fr.req.email)
    IN  IF user = <<>>
        THEN Respond(c, 401, "unauthorized")
        ELSE IF ~verify_password(c.fr.req.password, user[1].password_hash)
        THEN Respond(c, 401, "unauthorized")
        ELSE Goto([c EXCEPT !.fr.user = user], "e_exist")

\* find_one of the user by the supplied email, the 401 and the 403
edit_order_auth(c) ==
    LET user == FindUserByEmail(c.db, c.fr.req.email)
    IN  IF user = <<>>
        THEN Respond(c, 401, "unauthorized")
        ELSE IF ~verify_password(c.fr.req.password, user[1].password_hash)
        THEN Respond(c, 401, "unauthorized")
        ELSE IF c.fr.order[1].user_email # c.fr.req.email
        THEN Respond(c, 403, "forbidden")
        ELSE Goto([c EXCEPT !.fr.user = user], "e_exist")

\* "Validate all products exist": one find_one per new item
edit_exist(c) ==
    LET items == c.fr.req.items
    IN  IF c.fr.i <= Len(items)
        THEN IF ~ValidObjectId(items[c.fr.i].product_id)
             THEN Respond(c, 500, "fault")
             ELSE IF FindProduct(c.db, items[c.fr.i].product_id) = <<>>
             THEN Respond(c, 400, "product_missing")
             ELSE [c EXCEPT !.fr.i = @ + 1]
        ELSE Goto(c, "e_restore")

\* mutant: the restore loop is skipped
edit_restore_Skipped(c) == Goto(c, "e_check")

\* "Restore stock from original order items"
edit_restore(c) ==
    LET original == c.fr.order[1].items
    IN  IF c.fr.i <= Len(original)
        THEN [c EXCEPT !.db = IncQuantity(@, original[c.fr.i].product_id,
                                          original[c.fr.i].quantity),
                       !.fr.i = @ + 1]
        ELSE Goto(c, "e_check")

\* "Check stock availability for new quantities"
edit_check(c) ==
    LET items == c.fr.req.items
        product == FindProduct(c.db, items[c.fr.i].product_id)
    IN  IF c.fr.i <= Len(items)
        THEN IF product = <<>>
             THEN Respond(c, 500, "fault")
             ELSE IF Insufficient(product[1].quantity, items[c.fr.i].quantity)
             THEN Goto(c, "e_check_revert")
             ELSE [c EXCEPT !.fr.i = @ + 1]
        ELSE Goto(c, "e_deduct")

\* mutant: the shortfall branch returns its 400 without re-subtracting
edit_check_revert_NoRevert(c) == Respond(c, 400, "shortfall")

\* "Restore the original order if stock validation fails", then the 400
edit_check_revert(c) ==
    LET original == c.fr.order[1].items
    IN  IF c.fr.i <= Len(original)
        THEN [c EXCEPT !.db = IncQuantity(@, original[c.fr.i].product_id,
                                          -original[c.fr.i].quantity),
                       !.fr.i = @ + 1]
        ELSE Respond(c, 400, "shortfall")

\* "Deduct stock for new quantities"
edit_deduct(c) ==
    LET items == c.fr.req.items
    IN  IF c.fr.i <= Len(items)
        THEN [c EXCEPT !.db = IncQuantity(@, items[c.fr.i].product_id,
                                          -items[c.fr.i].quantity),
                       !.fr.i = @ + 1]
        ELSE Goto([c EXCEPT !.fr.total = SumTotals(items)],
                  IF c.fr.op = "edit_order" THEN "e_min_check"
                  ELSE "a_find_user")

\* "Check minimum order value" of the self-service edit
edit_order_min_check(c) ==
    IF BelowMinimum(FindMinOrderSetting(c.db), c.fr.total)
    THEN Goto(c, "e_min_readd")
    ELSE Goto(c, "e_user_update")

\* the first compensation loop: add the new quantities back
edit_order_min_readd(c) ==
    LET items == c.fr.req.items
    IN  IF c.fr.i <= Len(items)
        THEN [c EXCEPT !.db = IncQuantity(@, items[c.fr.i].product_id,
                                          items[c.fr.i].quantity),
                       !.fr.i = @ + 1]
        ELSE Goto(c, "e_min_revert")

\* mutant: the second compensation loop is missing
edit_order_min_revert_Missing(c) == Respond(c, 400, "min_order")

\* the second compensation loop: subtract the original quantities, then 400
edit_order_min_revert(c) ==
    LET original == c.fr.order[1].items
    IN  IF c.fr.i <= Len(original)
        THEN [c EXCEPT !.db = IncQuantity(@, original[c.fr.i].product_id,
                                          -original[c.fr.i].quantity),
                       !.fr.i = @ + 1]
        ELSE Respond(c, 400, "min_order")

\* users_collection.update_one({"_id": id}, {"$set": {name, email, ...}})
SetUserInfo(users, id, user_info) ==
    [k \in 1..Len(users) |->
        IF users[k]._id = id
        THEN [users[k] EXCEPT !.name = user_info.name,
                              !.email = user_info.email,
                              !.phone = user_info.phone,
                              !.address = user_info.address]
        ELSE users[k]]

\* the self-service user update; the password is rehashed only when the
\* supplied one does not verify against the hash loaded at the credential check
edit_order_user_update(c) ==
    IF c.fr.req.user_info = <<>>
    THEN Goto(c, "e_update_order")
    ELSE LET ui == c.fr.req.user_info[1]
             user == c.fr.user[1]
             named == SetUserInfo(c.db.users, user._id, ui)
         IN  Goto([c EXCEPT !.db.users =
                       IF ~verify_password(ui.password, user.password_hash)
                       THEN SetPasswordHash(named, user._id,
                                            get_password_hash(ui.password))
                       ELSE named], "e_update_order")

\* admin: user = await users_collection.find_one({"email": order["user_email"]})
admin_edit_order_find_user(c) ==
    IF c.fr.req.user_info = <<>>
    THEN Goto(c, "e_update_order")
    ELSE Goto([c EXCEPT !.fr.user =
                            FindUserByEmail(c.db, c.fr.order[1].user_email)],
              "a_user_update")

\* mutant: the admin user update rehashes the supplied password
admin_edit_order_user_update_Rehash(c) ==
    IF c.fr.user = <<>>
    THEN Goto(c, "e_update_order")
    ELSE Goto([c EXCEPT !.db.users =
                  SetPasswordHash(
                      SetUserInfo(@, c.fr.user[1]._id, c.fr.req.user_info[1]),
                      c.fr.user[1]._id,
                      get_password_hash(c.fr.req.user_info[1].password))],
              "e_update_order")

\* admin: the user update never carries password_hash
admin_edit_order_user_update(c) ==
    IF c.fr.user = <<>>
    THEN Goto(c, "e_update_order")
    ELSE Goto([c EXCEPT !.db.users =
                            SetUserInfo(@, c.fr.user[1]._id,
                                        c.fr.req.user_info[1])],
              "e_update_order")

\* mutant: the new items are stored and total_amount is left as it was
UpdateData_KeepsTotal(order, items, total_amount, user_info) ==
    LET edited == [order EXCEPT !.items = items]
    IN  IF user_info = <<>>
        THEN edited
        ELSE [edited EXCEPT !.user_name = user_info[1].name,
                            !.user_email = user_info[1].email,
                            !.user_phone = user_info[1].phone,
                            !.user_address = user_info[1].address]

\* update_data: items and total_amount, and the user fields when supplied
\* mutant: the update replaces the document, notification flag included,
\* by one built from the edit's data
UpdateData_ReplacesDocument(order, items, total_amount, user_info) ==
    LET edited == [order EXCEPT !.items = items,
                                !.total_amount = total_amount,
                                !.email_notification_failed = FALSE]
    IN  IF user_info = <<>>
        THEN edited
        ELSE [edited EXCEPT !.user_name = user_info[1].name,
                            !.user_email = user_info[1].email,
                            !.user_phone = user_info[1].phone,
                            !.user_address = user_info[1].address]

UpdateData(order, items, total_amount, user_info) ==
    LET edited == [order EXCEPT !.items = items,
                                !.total_amount = total_amount]
    IN  IF user_info = <<>>
        THEN edited
        ELSE [edited EXCEPT !.user_name = user_info[1].name,
                            !.user_email = user_info[1].email,
                            !.user_phone = user_info[1].phone,
                            !.user_address = user_info[1].address]

\* orders_collection.update_one({"_id": ...}, {"$set": update_data});
\* matched_count == 0 is the second 404
edit_update_order(c) ==
    IF FindOrder(c.db, c.fr.req.order_id) = <<>>
    THEN Respond(c, 404, "not_found")
    ELSE Goto([c EXCEPT !.db.orders =
                  [k \in 1..Len(@) |->
                      IF @[k]._id = c.fr.req.order_id
                      THEN UpdateData(@[k], c.fr.req.items, c.fr.total,
                                      c.fr.req.user_info)
                      ELSE @[k]]],
              "e_reload")

\* updated_order = await orders_collection.find_one(...); return
edit_reload(c) == Respond(c, 200, "ok")

edit_order(c) ==
    CASE c.fr.pc = "e_load" -> edit_load(c)
      [] c.fr.pc = "e_auth" -> edit_order_auth(c)
      [] c.fr.pc = "e_exist" -> edit_exist(c)
      [] c.fr.pc = "e_restore" -> edit_restore(c)
      [] c.fr.pc = "e_check" -> edit_check(c)
      [] c.fr.pc = "e_check_revert" -> edit_check_revert(c)
      [] c.fr.pc = "e_deduct" -> edit_deduct(c)
      [] c.fr.pc = "e_min_check" -> edit_order_min_check(c)
      [] c.fr.pc = "e_min_readd" -> edit_order_min_readd(c)
      [] c.fr.pc = "e_min_revert" -> edit_order_min_revert(c)
      [] c.fr.pc = "e_user_update" -> edit_order_user_update(c)
      [] c.fr.pc = "e_update_order" -> edit_update_order(c)
      [] c.fr.pc = "e_reload" -> edit_reload(c)

admin_edit_order(c) ==
    CASE c.fr.pc = "e_load" -> edit_load(c)
      [] c.fr.pc = "e_exist" -> edit_exist(c)
      [] c.fr.pc = "e_restore" -> edit_restore(c)
      [] c.fr.pc = "e_check" -> edit_check(c)
      [] c.fr.pc = "e_check_revert" -> edit_check_revert(c)
      [] c.fr.pc = "e_deduct" -> edit_deduct(c)
      [] c.fr.pc = "a_find_user" -> admin_edit_order_find_user(c)
      [] c.fr.pc = "a_user_update" -> admin_edit_order_user_update(c)
      [] c.fr.pc = "e_update_order" -> edit_update_order(c)
      [] c.fr.pc = "e_reload" -> edit_reload(c)

(***************************************************************************)
(* update_order_status: the status is any string the request carries.      *)
(***************************************************************************)
SetStatus(order, status) == [order EXCEPT !.status = status]

update_order_status(c) ==
    CASE c.fr.pc = "s_update" ->
            IF FindOrder(c.db, c.fr.req.order_id) = <<>>
            THEN Respond(c, 404, "not_found")
            ELSE Goto([c EXCEPT !.db.orders =
                          [k \in 1..Len(@) |->
                              IF @[k]._id = c.fr.req.order_id
                              THEN SetStatus(@[k], c.fr.req.status)
                              ELSE @[k]]],
                      "s_reload")
      [] c.fr.pc = "s_reload" -> Respond(c, 200, "ok")

(***************************************************************************)
(* delete_order: one delete_one; deleted_count == 0 is the 404.            *)
(***************************************************************************)
RemoveOrder(orders, order_id) ==
    SelectSeq(orders, LAMBDA o : o._id # order_id)

\* mutant: the deleted order's quantities are returned to stock
delete_order_Restocks(c) ==
    LET order == FindOrder(c.db, c.fr.req.order_id)
    IN  IF order = <<>>
        THEN Respond(c, 404, "not_found")
        ELSE Respond([c EXCEPT !.db.orders = RemoveOrder(@, c.fr.req.order_id),
                               !.db.products =
                                   [pid \in DOMAIN @ |->
                                       @[pid] + QuantityOf(order[1].items, pid)]],
                     200, "ok")

delete_order(c) ==
    IF FindOrder(c.db, c.fr.req.order_id) = <<>>
    THEN Respond(c, 404, "not_found")
    ELSE Respond([c EXCEPT !.db.orders = RemoveOrder(@, c.fr.req.order_id)],
                 200, "ok")

(***************************************************************************)
(* send_order_email_background: the notification task of one order.  Each  *)
(* await (the send, the sleep, the bookkeeping write) is one step; the     *)
(* mail collaborator answers "true", "false" or "raise", and the           *)
(* bookkeeping write either succeeds ("ok") or faults ("fault").           *)
(***************************************************************************)
max_retries == 3

retry_delay == 2

MailOutcomes == {"true", "false", "raise"}

WriteOutcomes == {"ok", "fault"}

\* a task that has not started; results are the outcomes of the attempts made
\* and waits the sleeps taken, in order
MailIdle ==
    [pc |-> "idle", order_id |-> 0, attempt |-> 0, retry_delay |-> retry_delay,
     results |-> <<>>, waits |-> <<>>, flag |-> "none"]

NewMailFrame(order_id) == [MailIdle EXCEPT !.pc = "m_send", !.order_id = order_id]

\* the loop head after an iteration: the next attempt or the loop's exit
NextAttempt(m) ==
    [m EXCEPT !.attempt = @ + 1,
              !.pc = IF m.attempt + 1 < max_retries THEN "m_send" ELSE "m_flag"]

\* mutant: a successful send does not return
send_attempt_NoReturn(m, outcome) ==
    LET made == [m EXCEPT !.results = Append(@, outcome)]
    IN  IF outcome = "raise" /\ m.attempt < max_retries - 1
        THEN [made EXCEPT !.pc = "m_sleep"]
        ELSE NextAttempt(made)

\* one iteration of the loop up to its next await: the send and its outcome
send_attempt(m, outcome) ==
    LET made == [m EXCEPT !.results = Append(@, outcome)]
    IN  IF outcome = "true"
        THEN [made EXCEPT !.pc = "done"]
        ELSE IF outcome = "false"
        THEN NextAttempt(made)
        ELSE IF m.attempt < max_retries - 1
        THEN [made EXCEPT !.pc = "m_sleep"]
        ELSE NextAttempt(made)

\* await asyncio.sleep(retry_delay); retry_delay *= 2
backoff_sleep(m) ==
    NextAttempt([m EXCEPT !.waits = Append(@, m.retry_delay),
                          !.retry_delay = @ * 2])

\* orders_collection.update_one({"_id": ...}, {"$set": {"email_notification_failed": True, ...}})
SetEmailFailed(d, order_id) ==
    [d EXCEPT !.orders =
        [k \in 1..Len(@) |->
            IF @[k]._id = order_id
            THEN [@[k] EXCEPT !.email_notification_failed = TRUE]
            ELSE @[k]]]

\* mutant: a fault of the bookkeeping write still leaves the flag written
write_failure_flag_IgnoresFault(d, m, outcome) ==
    [db |-> SetEmailFailed(d, m.order_id),
     m |-> [m EXCEPT !.pc = "done", !.flag = outcome]]

\* the bookkeeping write after the loop; its fault is caught and printed
write_failure_flag(d, m, outcome) ==
    [db |-> IF outcome = "ok" THEN SetEmailFailed(d, m.order_id) ELSE d,
     m |-> [m EXCEPT !.pc = "done", !.flag = outcome]]

\* one step of the task: outcome is the collaborator's answer at m_send and
\* the store's at m_flag
send_order_email_background(d, m, outcome) ==
    CASE m.pc = "m_send" -> [db |-> d, m |-> send_attempt(m, outcome)]
      [] m.pc = "m_sleep" -> [db |-> d, m |-> backoff_sleep(m)]
      [] m.pc = "m_flag" -> write_failure_flag(d, m, outcome)

(***************************************************************************)
(* One store operation of a handler, and a handler run to its response.    *)
(***************************************************************************)
Step(c) ==
    CASE c.fr.op = "create_order" -> create_order(c)
      [] c.fr.op = "edit_order" -> edit_order(c)
      [] c.fr.op = "admin_edit_order" -> admin_edit_order(c)
      [] c.fr.op = "update_order_status" -> update_order_status(c)
      [] c.fr.op = "validate_stock" -> validate_stock(c)
      [] c.fr.op = "delete_order" -> delete_order(c)

RECURSIVE Run(_)
Run(c) == IF c.fr.pc = "done" THEN c ELSE Run(Step(c))

\* the first n steps of a handler, or all of them when it is done earlier
RECURSIVE StepN(_, _)
StepN(c, n) == IF n = 0 \/ c.fr.pc = "done" THEN c ELSE StepN(Step(c), n - 1)

\* a store operation raises inside the edit's try block: the generic except
\* answers 500 "Failed to edit order"; the raising operation wrote nothing
Fault(c) == Respond(c, 500, "fault")

(***************************************************************************)
(* Requests.                                                               *)
(***************************************************************************)
Line(pid, quantity) ==
    [product_id |-> pid, product_name |-> pid, quantity |-> quantity,
     price |-> 1, total |-> quantity]

Lines ==
    {Line(pid, q) : pid \in Products, q \in 1..MaxQty} \cup {Line(MissingId, 1)}

ItemLists == UNION {[1..n -> Lines] : n \in 0..MaxItems}

UserInfo(email, password, name) ==
    [name |-> name, email |-> email, phone |-> "t-" \o name,
     address |-> "a-" \o name, password |-> password]

UserInfos ==
    {UserInfo("a@x", "pw1", "n1"), UserInfo("a@x", "pw2", "n2"),
     UserInfo("b@x", "pw1", "n1")}

StatusInputs == OrderStatuses \cup {"refunded"}

OrderIds == 1..MaxOrders

CreateReq(user_info, items) ==
    [NoReq EXCEPT !.user_info = <<user_info>>, !.items = items]

EditReq(order_id, items, email, password, user_info) ==
    [NoReq EXCEPT !.order_id = order_id, !.items = items, !.email = email,
                  !.password = password, !.user_info = user_info]

StatusReq(order_id, status) ==
    [NoReq EXCEPT !.order_id = order_id, !.status = status]

(***************************************************************************)
(* The sequential specification: one whole handler per action.             *)
(***************************************************************************)
Idle == NewFrame("none", "done", NoReq)

\* the requests in flight of the interleaved specification
Procs == {"r1", "r2"}

Init ==
    /\ db \in [products : [Products -> 0..MaxStock],
               orders : {<<>>},
               users : {<<>>},
               settings : {<<>>, <<[key |-> "minimum_order_value",
                                    value |-> MinOrderValue]>>},
               next_order_id : {1}]
    /\ tasks = <<>>
    /\ last = Idle
    /\ initial = db.products
    /\ procs = [p \in Procs |-> Idle]
    /\ started = 0
    /\ mail = [k \in OrderIds |-> MailIdle]

\* what is kept of the handler that ran last: its request without the item
\* list, its response, and the user and total it computed
Summary(fr) ==
    [fr EXCEPT !.req.items = <<>>, !.invalid_items = <<>>, !.order = <<>>]

CreateOrder(user_infos, item_lists) ==
    \E user_info \in user_infos, items \in item_lists :
        \E r \in {Run([db |-> db, tasks |-> tasks,
                      fr |-> NewFrame("create_order", "c_validate",
                                      CreateReq(user_info, items))])} :
            /\ db.next_order_id <= MaxOrders
            /\ \/ Len(db.users) < MaxUsers
               \/ FindUserByEmail(db, user_info.email) # <<>>
            /\ db' = r.db
            /\ tasks' = r.tasks
            /\ last' = Summary(r.fr)
            /\ UNCHANGED <<initial, procs, started, mail>>

EditOrder(creds, user_infos, item_lists) ==
    \E order_id \in OrderIds, items \in item_lists, cred \in creds,
       user_info \in {<<>>} \cup {<<u>> : u \in user_infos} :
        \E r \in {Run([db |-> db, tasks |-> tasks,
                      fr |-> NewFrame("edit_order", "e_load",
                                      EditReq(order_id, items, cred.email,
                                              cred.password, user_info))])} :
            /\ db' = r.db
            /\ tasks' = r.tasks
            /\ last' = Summary(r.fr)
            /\ UNCHANGED <<initial, procs, started, mail>>

AdminEditOrder(user_infos, item_lists) ==
    \E order_id \in OrderIds, items \in item_lists,
       user_info \in {<<>>} \cup {<<u>> : u \in user_infos} :
        \E r \in {Run([db |-> db, tasks |-> tasks,
                      fr |-> NewFrame("admin_edit_order", "e_load",
                                      EditReq(order_id, items, "", "",
                                              user_info))])} :
            /\ db' = r.db
            /\ tasks' = r.tasks
            /\ last' = Summary(r.fr)
            /\ UNCHANGED <<initial, procs, started, mail>>

UpdateOrderStatus(statuses) ==
    \E order_id \in OrderIds, status \in statuses :
        \E r \in {Run([db |-> db, tasks |-> tasks,
                      fr |-> NewFrame("update_order_status", "s_update",
                                      StatusReq(order_id, status))])} :
            /\ db' = r.db
            /\ tasks' = r.tasks
            /\ last' = Summary(r.fr)
            /\ UNCHANGED <<initial, procs, started, mail>>

\* the lines of a StockValidationRequest: any identifier, any integer quantity
ValidatorLines ==
    {[product_id |-> pid, quantity |-> q] :
        pid \in Products \cup {MissingId, BadId}, q \in (-1)..MaxQty}

ValidatorInputs == UNION {[1..n -> ValidatorLines] : n \in 0..MaxItems}

ValidateReq(items) == [NoReq EXCEPT !.items = items]

ValidateStock(item_lists) ==
    \E items \in item_lists :
        \E r \in {Run([db |-> db, tasks |-> tasks,
                      fr |-> NewFrame("validate_stock", "v_validate",
                                      ValidateReq(items))])} :
            /\ db' = r.db
            /\ tasks' = r.tasks
            /\ last' = Summary(r.fr)
            /\ UNCHANGED <<initial, procs, started, mail>>

\* Spec: every item list, one customer (with a right and a wrong password)
Customer == UserInfo("a@x", "pw1", "n1")

Next ==
    \/ CreateOrder({Customer}, ItemLists)
    \/ EditOrder({Customer, UserInfo("a@x", "pw2", "n1")}, {}, ItemLists)
    \/ AdminEditOrder({}, ItemLists)
    \/ UpdateOrderStatus({"shipped"})
    \/ ValidateStock(ValidatorInputs)

Spec == Init /\ [][Next]_vars

\* SpecUsers: every customer record, one-line item lists
OneLineLists == {<<Line(pid, q)>> : pid \in Products, q \in 1..MaxQty}

NextUsers ==
    \/ CreateOrder(UserInfos, OneLineLists)
    \/ EditOrder(UserInfos, UserInfos, OneLineLists)
    \/ AdminEditOrder(UserInfos, OneLineLists)

SpecUsers == Init /\ [][NextUsers]_vars

\* SpecStatus: every status string, one customer, one-line item lists
NextStatus ==
    \/ CreateOrder({Customer}, OneLineLists)
    \/ EditOrder({Customer}, {}, OneLineLists)
    \/ AdminEditOrder({}, OneLineLists)
    \/ UpdateOrderStatus(StatusInputs)

SpecStatus == Init /\ [][NextStatus]_vars

(***************************************************************************)
(* The interleaved specification: requests run concurrently, one store     *)
(* operation of one request per step.                                      *)
(***************************************************************************)
Begin(p, fr) ==
    /\ procs[p].pc = "done"
    /\ started < MaxRequests
    /\ started' = started + 1
    /\ procs' = [procs EXCEPT ![p] = fr]
    /\ UNCHANGED <<db, tasks, last, initial, mail>>

\* the requests of the interleaved runs address orders that are stored when
\* they begin, and at most MaxRequests requests begin
BeginCreateOrder(user_infos, item_lists) ==
    \E p \in Procs, user_info \in user_infos, items \in item_lists :
        /\ db.next_order_id
              + Cardinality({q \in Procs : /\ procs[q].op = "create_order"
                                           /\ procs[q].pc # "done"})
              <= MaxOrders
        /\ Begin(p, NewFrame("create_order", "c_validate",
                             CreateReq(user_info, items)))

BeginEditOrder(creds, user_infos, item_lists) ==
    \E p \in Procs, order_id \in OrderIds, items \in item_lists,
       cred \in creds, user_info \in {<<>>} \cup {<<u>> : u \in user_infos} :
        /\ FindOrder(db, order_id) # <<>>
        /\ Begin(p, NewFrame("edit_order", "e_load",
                             EditReq(order_id, items, cred.email,
                                     cred.password, user_info)))

BeginAdminEditOrder(user_infos, item_lists) ==
    \E p \in Procs, order_id \in OrderIds, items \in item_lists,
       user_info \in {<<>>} \cup {<<u>> : u \in user_infos} :
        /\ FindOrder(db, order_id) # <<>>
        /\ Begin(p, NewFrame("admin_edit_order", "e_load",
                             EditReq(order_id, items, "", "", user_info)))

BeginUpdateOrderStatus(statuses) ==
    \E p \in Procs, order_id \in OrderIds, status \in statuses :
        /\ FindOrder(db, order_id) # <<>>
        /\ Begin(p, NewFrame("update_order_status", "s_update",
                             StatusReq(order_id, status)))

\* one store operation of request p; a finished request frees its slot
StepProc ==
    \E p \in Procs :
        /\ procs[p].pc # "done"
        /\ \E r \in {Step([db |-> db, tasks |-> tasks, fr |-> procs[p]])} :
              /\ db' = r.db
              /\ tasks' = r.tasks
              /\ procs' = [procs EXCEPT ![p] =
                              IF r.fr.pc = "done" THEN Idle ELSE r.fr]
        /\ UNCHANGED <<last, initial, started, mail>>

NextConc ==
    \/ BeginCreateOrder({Customer}, OneLineLists)
    \/ BeginEditOrder({Customer}, {}, OneLineLists)
    \/ BeginAdminEditOrder({}, OneLineLists)
    \/ BeginUpdateOrderStatus({"shipped"})
    \/ StepProc

SpecConc == Init /\ [][NextConc]_vars

(***************************************************************************)
(* The notification specification: create_order requests, interleaved one *)
(* store operation per step, and the notification task of every order      *)
(* that was scheduled.  A scheduled task is started by the framework after *)
(* its request returned, and every await of a started task completes.      *)
(***************************************************************************)
StartMail ==
    \E k \in OrderIds :
        /\ k <= Len(tasks)
        /\ mail[k].pc = "idle"
        /\ mail' = [mail EXCEPT ![k] = NewMailFrame(tasks[k])]
        /\ UNCHANGED <<db, tasks, last, initial, procs, started>>

MailAttempt(k) ==
    /\ mail[k].pc = "m_send"
    /\ \E outcome \in MailOutcomes :
          \E r \in {send_order_email_background(db, mail[k], outcome)} :
              /\ db' = r.db
              /\ mail' = [mail EXCEPT ![k] = r.m]
    /\ UNCHANGED <<tasks, last, initial, procs, started>>

MailSleep(k) ==
    /\ mail[k].pc = "m_sleep"
    /\ \E r \in {send_order_email_background(db, mail[k], "none")} :
          /\ db' = r.db
          /\ mail' = [mail EXCEPT ![k] = r.m]
    /\ UNCHANGED <<tasks, last, initial, procs, started>>

MailWrite(k) ==
    /\ mail[k].pc = "m_flag"
    /\ \E outcome \in WriteOutcomes :
          \E r \in {send_order_email_background(db, mail[k], outcome)} :
              /\ db' = r.db
              /\ mail' = [mail EXCEPT ![k] = r.m]
    /\ UNCHANGED <<tasks, last, initial, procs, started>>

MailStep(k) == MailAttempt(k) \/ MailSleep(k) \/ MailWrite(k)

NextMail ==
    \/ BeginCreateOrder({Customer}, OneLineLists)
    \/ StepProc
    \/ StartMail
    \/ \E k \in OrderIds : MailAttempt(k)
    \/ \E k \in OrderIds : MailSleep(k)
    \/ \E k \in OrderIds : MailWrite(k)

SpecMail ==
    /\ Init
    /\ [][NextMail]_vars
    /\ \A k \in OrderIds : WF_vars(MailStep(k))

(***************************************************************************)

(* The race specification: create_order requests only, interleaved one     *)
(* store operation per step.                                               *)
(***************************************************************************)
NextRace ==
    \/ BeginCreateOrder({Customer}, OneLineLists)
    \/ StepProc

SpecRace == Init /\ [][NextRace]_vars

(***************************************************************************)

(* The any-input specification: one whole handler per action, with every   *)
(* line the request models accept: quantity is any integer, product_id any *)
(* string.                                                                 *)
(***************************************************************************)
SignedLines == {Line(pid, q) : pid \in Products, q \in (-1)..MaxQty}

SignedLists == UNION {[1..n -> SignedLines] : n \in 0..MaxItems}

AnyLists ==
    UNION {[1..n -> SignedLines \cup {Line(BadId, 1)}] : n \in 0..MaxItems}

AnyOneLineLists == {<<line>> : line \in SignedLines \cup {Line(BadId, 1)}}

\* orders are placed with any list and edited to any one-line list
NextAnyInput ==
    \/ CreateOrder({Customer}, AnyLists)
    \/ EditOrder({Customer}, {}, AnyOneLineLists)
    \/ AdminEditOrder({}, AnyOneLineLists)
    \/ ValidateStock(AnyOneLineLists)

SpecAnyInput == Init /\ [][NextAnyInput]_vars

(***************************************************************************)

(* The fault specification: one whole handler per action, and edits whose  *)
(* store operation after their first n steps raises; at most MaxRequests   *)
(* edits fault.                                                            *)
(***************************************************************************)
EditOrderFaulting(creds, item_lists) ==
    \E order_id \in OrderIds, items \in item_lists, cred \in creds,
       n \in 0..MaxFaultStep :
        \E c \in {StepN([db |-> db, tasks |-> tasks,
                        fr |-> NewFrame("edit_order", "e_load",
                                        EditReq(order_id, items, cred.email,
                                                cred.password, <<>>))], n)} :
            /\ c.fr.pc # "done"
            /\ started < MaxRequests
            /\ started' = started + 1
            /\ db' = Fault(c).db
            /\ tasks' = Fault(c).tasks
            /\ last' = Summary(Fault(c).fr)
            /\ UNCHANGED <<initial, procs, mail>>

AdminEditOrderFaulting(item_lists) ==
    \E order_id \in OrderIds, items \in item_lists, n \in 0..MaxFaultStep :
        \E c \in {StepN([db |-> db, tasks |-> tasks,
                        fr |-> NewFrame("admin_edit_order", "e_load",
                                        EditReq(order_id, items, "", "",
                                                <<>>))], n)} :
            /\ c.fr.pc # "done"
            /\ started < MaxRequests
            /\ started' = started + 1
            /\ db' = Fault(c).db
            /\ tasks' = Fault(c).tasks
            /\ last' = Summary(Fault(c).fr)
            /\ UNCHANGED <<initial, procs, mail>>

NextFault ==
    \/ CreateOrder({Customer}, OneLineLists)
    \/ EditOrder({Customer}, {}, OneLineLists)
    \/ AdminEditOrder({}, OneLineLists)
    \/ EditOrderFaulting({Customer}, OneLineLists)
    \/ AdminEditOrderFaulting(OneLineLists)

SpecFault == Init /\ [][NextFault]_vars

(***************************************************************************)

(* The delete specification: one whole handler per action, orders are      *)
(* deleted and cancelled, and an edit may have delete_order run to its     *)
(* response between two of its store operations.                           *)
(***************************************************************************)
DeleteReq(order_id) == [NoReq EXCEPT !.order_id = order_id]

DeleteOrder ==
    \E order_id \in OrderIds :
        \E r \in {Run([db |-> db, tasks |-> tasks,
                      fr |-> NewFrame("delete_order", "d_delete",
                                      DeleteReq(order_id))])} :
            /\ db' = r.db
            /\ tasks' = r.tasks
            /\ last' = Summary(r.fr)
            /\ UNCHANGED <<initial, procs, started, mail>>

\* the edit c after its first n steps, with the order deleted under it
DeletedUnder(c, n) ==
    LET at == StepN(c, n)
        deleted == Run([db |-> at.db, tasks |-> at.tasks,
                        fr |-> NewFrame("delete_order", "d_delete",
                                        DeleteReq(c.fr.req.order_id))])
    IN  Run([at EXCEPT !.db = deleted.db])

EditOrderDeleted(creds, item_lists) ==
    \E order_id \in OrderIds, items \in item_lists, cred \in creds,
       n \in 1..MaxFaultStep :
        \E r \in {DeletedUnder([db |-> db, tasks |-> tasks,
                               fr |-> NewFrame("edit_order", "e_load",
                                          EditReq(order_id, items, cred.email,
                                                  cred.password, <<>>))], n)} :
            /\ FindOrder(db, order_id) # <<>>
            /\ db' = r.db
            /\ tasks' = r.tasks
            /\ last' = Summary(r.fr)
            /\ UNCHANGED <<initial, procs, started, mail>>

AdminEditOrderDeleted(item_lists) ==
    \E order_id \in OrderIds, items \in item_lists, n \in 1..MaxFaultStep :
        \E r \in {DeletedUnder([db |-> db, tasks |-> tasks,
                               fr |-> NewFrame("admin_edit_order", "e_load",
                                          EditReq(order_id, items, "", "",
                                                  <<>>))], n)} :
            /\ FindOrder(db, order_id) # <<>>
            /\ db' = r.db
            /\ tasks' = r.tasks
            /\ last' = Summary(r.fr)
            /\ UNCHANGED <<initial, procs, started, mail>>

NextDelete ==
    \/ CreateOrder({Customer}, OneLineLists)
    \/ EditOrder({Customer}, {}, OneLineLists)
    \/ AdminEditOrder({}, OneLineLists)
    \/ UpdateOrderStatus({"cancelled"})
    \/ DeleteOrder
    \/ EditOrderDeleted({Customer}, OneLineLists)
    \/ AdminEditOrderDeleted(OneLineLists)

SpecDelete == Init /\ [][NextDelete]_vars

(***************************************************************************)

(* The flag specification: orders are placed one request at a time; the    *)
(* notification task of a placed order makes its max_retries attempts,     *)
(* which write nothing to the store, in one step, every one answered       *)
(* False, and then writes the failure flag in a step of its own; and       *)
(* edit_order and admin_edit_order requests, one at a time, run            *)
(* interleaved with the tasks, one store operation per step.               *)
(***************************************************************************)
RECURSIVE FailedAttempts(_)
FailedAttempts(m) ==
    IF m.pc # "m_send" THEN m
    ELSE FailedAttempts(send_order_email_background(<<>>, m, "false").m)

MailFailAll ==
    \E k \in OrderIds :
        /\ k <= Len(tasks)
        /\ mail[k].pc = "idle"
        /\ mail' = [mail EXCEPT ![k] = FailedAttempts(NewMailFrame(tasks[k]))]
        /\ UNCHANGED <<db, tasks, last, initial, procs, started>>

\* no request is in flight
Quiet == \A p \in Procs : procs[p].pc = "done"

\* one edit at a time: the interleavings are those of an edit with the tasks
NextFlagEdit ==
    \/ Quiet /\ CreateOrder({Customer}, OneLineLists)
    \/ Quiet /\ BeginEditOrder({Customer}, {}, OneLineLists)
    \/ Quiet /\ BeginAdminEditOrder({}, OneLineLists)
    \/ StepProc
    \/ MailFailAll
    \/ \E k \in OrderIds : MailWrite(k)

SpecFlagEdit == Init /\ [][NextFlagEdit]_vars

(***************************************************************************)

(* The edit race specification: create_order, edit_order and               *)
(* admin_edit_order requests, interleaved one store operation per step.    *)
(***************************************************************************)
NextEditRace ==
    \/ BeginCreateOrder({Customer}, OneLineLists)
    \/ BeginEditOrder({Customer}, {}, OneLineLists)
    \/ BeginAdminEditOrder({}, OneLineLists)
    \/ StepProc

SpecEditRace == Init /\ [][NextEditRace]_vars

(***************************************************************************)

(* Properties.                                                             *)
(***************************************************************************)
Edits == {"edit_order", "admin_edit_order"}

RECURSIVE HeldByOrders(_, _)
HeldByOrders(orders, pid) ==
    IF orders = <<>> THEN 0
    ELSE QuantityOf(Head(orders).items, pid) + HeldByOrders(Tail(orders), pid)

SettingPresent == db.settings # <<>>

\* C1: after every completed call of a sequential run, for every product the
\* initial quantity minus the quantities of all stored line items of that
\* product equals the current quantity
C1_StockConservation ==
    \A pid \in Products :
        initial[pid] - HeldByOrders(db.orders, pid) = db.products[pid]

\* a rejected edit that went through restore and compensation, two orders stored
C1_Witness ==
    /\ Len(db.orders) = 2
    /\ last.op \in Edits
    /\ last.resp.kind = "shortfall"
    /\ \E pid \in Products : HeldByOrders(db.orders, pid) >= 2

\* C2: as claimed, every product's quantity is >= 0 after every completed call
C2_NonNegative == \A pid \in Products : db.products[pid] >= 0

\* C3: a create_order rejected by the Stock Validator leaves the users, orders
\* and products collections as they were and schedules no notification
C3_StockRejectWritesNothing ==
    [][(last'.op = "create_order" /\ last'.resp.kind = "stock_invalid")
          => (db' = db /\ tasks' = tasks)]_vars

C3_Witness ==
    /\ last.op = "create_order"
    /\ last.resp.kind = "stock_invalid"
    /\ db.orders # <<>>

\* C4: as claimed, a create_order rejected for being below the minimum order
\* value leaves the users, orders and products collections as they were
C4_MinRejectNoSideEffects ==
    [][(last'.op = "create_order" /\ last'.resp.kind = "min_order")
          => (db'.users = db.users /\ db'.orders = db.orders
              /\ db'.products = db.products)]_vars

\* C5: create_order and edit_order reject on minimum-order grounds exactly when
\* the setting exists and the summed totals are below its value: a total
\* equal to the value is accepted, and nothing is rejected without a setting
C5_MinimumBoundary ==
    last.op \in {"create_order", "edit_order"} =>
        /\ last.resp.kind = "min_order" =>
              (SettingPresent /\ last.total < db.settings[1].value)
        /\ last.resp.kind = "ok" =>
              ~(SettingPresent /\ last.total < db.settings[1].value)
        /\ (last.resp.kind = "ok" /\ last.op = "create_order") =>
              db.orders[Len(db.orders)].total_amount = last.total

C5_Witness ==
    /\ last.op = "edit_order"
    /\ last.resp.kind = "ok"
    /\ SettingPresent
    /\ last.total = db.settings[1].value

\* C6: a create_order that finds a user with the request's email changes only
\* that document's password_hash, inserts no user and stores that user's
\* identifier in the order; one that finds none inserts exactly one user
C6_UserUpsert ==
    [][(last'.op = "create_order" /\ last'.resp.kind \in {"ok", "min_order"})
          => LET ui == last'.req.user_info[1]
                 existing == FindUserByEmail(db, ui.email)
                 n == Len(db.users)
             IN  IF existing # <<>>
                 THEN /\ Len(db'.users) = n
                      /\ \A k \in 1..n :
                            /\ db'.users[k] =
                                  [db.users[k] EXCEPT !.password_hash =
                                       db'.users[k].password_hash]
                            /\ db.users[k]._id # existing[1]._id =>
                                  db'.users[k] = db.users[k]
                      /\ last'.resp.kind = "ok" =>
                            db'.orders[Len(db'.orders)].user_id =
                                existing[1]._id
                 ELSE /\ Len(db'.users) = n + 1
                      /\ SubSeq(db'.users, 1, n) = db.users
                      /\ db'.users[n + 1].email = ui.email]_vars

\* an order placed by an existing user under a new password and a new name
C6_Witness ==
    /\ last.op = "create_order"
    /\ last.resp.kind = "ok"
    /\ last.user # <<>>
    /\ \E k \in 1..Len(db.users) :
          /\ db.users[k]._id = last.user[1]._id
          /\ db.users[k].password_hash # last.user[1].password_hash
          /\ db.users[k].name # last.req.user_info[1].name

\* C7: in every state of every interleaving of create, self-service edit and
\* admin edit requests, every stored order's total_amount is the sum of the
\* total fields of its stored items
C7_OrderTotal ==
    \A k \in 1..Len(db.orders) :
        db.orders[k].total_amount = SumTotals(db.orders[k].items)

\* two edits of one order in flight: r1 has written the order, r2 still holds
\* the items it loaded before that write
C7_Witness ==
    /\ procs["r1"].op \in Edits
    /\ procs["r2"].op \in Edits
    /\ procs["r1"].pc = "e_reload"
    /\ procs["r2"].pc \in {"e_restore", "e_check", "e_deduct", "e_update_order"}
    /\ procs["r1"].req.order_id = procs["r2"].req.order_id
    /\ FindOrder(db, procs["r1"].req.order_id)[1].items = procs["r1"].req.items
    /\ procs["r2"].order[1].items # procs["r1"].req.items
    /\ SumTotals(procs["r2"].order[1].items) # SumTotals(procs["r1"].req.items)

\* C8: as claimed, every stored order's status is one of the five of the enum
C8_StatusInEnum ==
    \A k \in 1..Len(db.orders) : db.orders[k].status \in OrderStatuses

\* C9: an edit of an order whose stored status is shipped, delivered or
\* cancelled is rejected and changes no order, product or user
C9_EditStatusGate ==
    [][(/\ last'.op \in Edits
        /\ FindOrder(db, last'.req.order_id) # <<>>
        /\ FindOrder(db, last'.req.order_id)[1].status
               \in {"shipped", "delivered", "cancelled"})
          => (/\ last'.resp = [code |-> 400, kind |-> "status_gate"]
              /\ db' = db)]_vars

C9_Witness ==
    /\ last.op = "edit_order"
    /\ last.resp.kind = "status_gate"
    /\ FindOrder(db, last.req.order_id)[1].status = "cancelled"

\* C10: an edit answered with a validation error (product missing, stock
\* shortfall, below the minimum) leaves every product quantity and the order's
\* items and total_amount as they were
C10_RejectedEditRestores ==
    [][(/\ last'.op \in Edits
        /\ last'.resp.kind \in {"product_missing", "shortfall", "min_order"})
          => (/\ db'.products = db.products
              /\ FindOrder(db', last'.req.order_id)[1].items =
                     FindOrder(db, last'.req.order_id)[1].items
              /\ FindOrder(db', last'.req.order_id)[1].total_amount =
                     FindOrder(db, last'.req.order_id)[1].total_amount)]_vars

\* a self-service edit rejected below the minimum after deducting the new lines
C10_Witness ==
    /\ last.op = "edit_order"
    /\ last.resp.kind = "min_order"
    /\ Len(db.orders) = 2

\* the edit of stored order k to the item list it already has, run alone
IdenticalEdit(op, k, cred) ==
    Run([db |-> db, tasks |-> tasks,
         fr |-> NewFrame(op, "e_load",
                         EditReq(db.orders[k]._id, db.orders[k].items,
                                 cred.email, cred.password, <<>>))])

EditCreds == {Customer, UserInfo("a@x", "pw2", "n1")}

\* C11: in every state a sequential run reaches, a self-service or admin edit
\* of an editable order to the item list it already has, run alone from that
\* state, leaves every product quantity and the order's total_amount unchanged
C11_IdenticalEditNoOp ==
    \A k \in 1..Len(db.orders), op \in Edits, cred \in EditCreds :
        Editable(db.orders[k].status) =>
            LET r == IdenticalEdit(op, k, cred)
            IN  /\ r.db.products = db.products
                /\ r.db.orders[k].total_amount = db.orders[k].total_amount
                /\ r.db.orders[k].items = db.orders[k].items

\* two orders hold stock, and the identical edit of the first is accepted for
\* its owner and for the administrator after restoring and deducting two units
C11_Witness ==
    /\ Len(db.orders) = 2
    /\ Editable(db.orders[1].status)
    /\ QuantityOf(db.orders[1].items, "p1") = 2
    /\ db.orders[2].items # <<>>
    /\ \A op \in Edits :
          IdenticalEdit(op, 1, Customer).fr.resp = [code |-> 200, kind |-> "ok"]

\* the supplied password verifies against the hash of the user that the
\* supplied email finds
Verified(d, email, password) ==
    LET user == FindUserByEmail(d, email)
    IN  user # <<>> /\ verify_password(password, user[1].password_hash)

\* C12: a self-service edit changes the store only when the supplied password
\* verifies against the stored hash of the user found by the supplied email and
\* that email is the order's user_email; on an editable order a password that
\* does not verify is answered 401 and verified credentials of another email
\* 403, and both leave orders, products and users unchanged
C12_EditAuthorisation ==
    [][last'.op = "edit_order"
          => LET order == FindOrder(db, last'.req.order_id)
                 verified == Verified(db, last'.req.email, last'.req.password)
                 editable == order # <<>> /\ Editable(order[1].status)
             IN  /\ db' # db =>
                       (/\ verified
                        /\ order # <<>>
                        /\ order[1].user_email = last'.req.email)
                 /\ (editable /\ ~verified) =>
                       (last'.resp.code = 401 /\ db' = db)
                 /\ (/\ editable
                     /\ verified
                     /\ order[1].user_email # last'.req.email) =>
                       (last'.resp.code = 403 /\ db' = db)]_vars

\* a registered customer with the right password is refused another
\* customer's editable order
C12_Witness ==
    /\ last.op = "edit_order"
    /\ last.resp = [code |-> 403, kind |-> "forbidden"]
    /\ Verified(db, last.req.email, last.req.password)
    /\ Editable(FindOrder(db, last.req.order_id)[1].status)
    /\ FindOrder(db, last.req.order_id)[1].user_email # last.req.email

\* C13: no admin_edit_order call, with or without user_info, changes the
\* password_hash of any user document (nor adds or removes a user)
C13_AdminKeepsPasswordHash ==
    [][last'.op = "admin_edit_order"
          => /\ Len(db'.users) = Len(db.users)
             /\ \A k \in 1..Len(db.users) :
                   /\ db'.users[k]._id = db.users[k]._id
                   /\ db'.users[k].password_hash =
                          db.users[k].password_hash]_vars

\* an accepted admin edit that rewrote the owner's name from a user_info whose
\* password differs from the one the owner's hash was made of
C13_Witness ==
    /\ last.op = "admin_edit_order"
    /\ last.resp.kind = "ok"
    /\ last.req.user_info # <<>>
    /\ last.user # <<>>
    /\ \E k \in 1..Len(db.users) :
          /\ db.users[k]._id = last.user[1]._id
          /\ db.users[k].name = last.req.user_info[1].name
          /\ db.users[k].name # last.user[1].name
          /\ ~verify_password(last.req.user_info[1].password,
                              db.users[k].password_hash)

\* the loop of task m is over: it returned on a success or ran out of attempts
LoopOver(m) == m.pc \in {"m_flag", "done"}

\* C14: whatever the mail collaborator answers, a notification task makes at
\* most 3 send attempts and at least one before its loop is over, makes no
\* attempt after one that returned true, ends its loop without a success only
\* after 3 attempts, and every started task terminates
C14_RetryBound ==
    /\ [](\A k \in OrderIds :
            LET m == mail[k]
                n == Len(m.results)
            IN  /\ n <= max_retries
                /\ \A i \in 1..(n - 1) : m.results[i] # "true"
                /\ LoopOver(m) =>
                      (n >= 1 /\ (m.results[n] # "true" => n = max_retries)))
    /\ \A k \in OrderIds : (mail[k].pc # "idle") ~> (mail[k].pc = "done")

\* one task ran out of attempts on both kinds of failure, the other succeeded
\* on its third attempt
C14_Witness ==
    /\ mail[1].pc = "done"
    /\ mail[1].results = <<"false", "raise", "false">>
    /\ mail[2].pc = "done"
    /\ mail[2].results = <<"raise", "false", "true">>

RECURSIVE Pow2(_)
Pow2(n) == IF n = 0 THEN 1 ELSE 2 * Pow2(n - 1)

\* C15: as claimed, consecutive send attempts of a task are separated by a
\* backoff wait, the first of 2 time units and each next one the double of
\* the one before, whether the attempts failed by returning false or by raising
C15_Backoff ==
    \A k \in OrderIds :
        LET m == mail[k]
        IN  /\ Len(m.waits) >= Len(m.results) - 1
            /\ \A i \in 1..Len(m.waits) : m.waits[i] = retry_delay * Pow2(i - 1)

\* every attempt of task m failed and there were max_retries of them
Exhausted(m) ==
    /\ Len(m.results) = max_retries
    /\ \A i \in 1..Len(m.results) : m.results[i] # "true"

\* the notification tasks started for order_id
TasksOf(order_id) ==
    {k \in OrderIds : mail[k].pc # "idle" /\ mail[k].order_id = order_id}

\* C16: an order's email_notification_failed flag is true exactly when its
\* notification task failed all 3 attempts and its bookkeeping write did not
\* fault; a task with a successful attempt never performs the write; a
\* faulting write ends the task without an error and without the flag
C16_FailureFlag ==
    /\ \A j \in 1..Len(db.orders) :
          db.orders[j].email_notification_failed <=>
              \E k \in TasksOf(db.orders[j]._id) :
                  /\ mail[k].pc = "done"
                  /\ Exhausted(mail[k])
                  /\ mail[k].flag = "ok"
    /\ \A k \in OrderIds :
          /\ mail[k].flag # "none" => (mail[k].pc = "done" /\ Exhausted(mail[k]))
          /\ (mail[k].pc = "done" /\ Exhausted(mail[k])) => mail[k].flag # "none"

\* the first order's task ran out of attempts and flagged the order; the
\* second order's task ran out of attempts and its write faulted
C16_Witness ==
    /\ Len(db.orders) = 2
    /\ \E k1, k2 \in OrderIds :
          /\ mail[k1].order_id = db.orders[1]._id
          /\ mail[k1].flag = "ok"
          /\ db.orders[1].email_notification_failed
          /\ mail[k2].order_id = db.orders[2]._id
          /\ mail[k2].flag = "fault"
          /\ mail[k2].pc = "done"
          /\ ~db.orders[2].email_notification_failed

\* the create_order requests in flight
CreatesInFlight ==
    {p \in Procs : procs[p].op = "create_order" /\ procs[p].pc # "done"}

\* what an order is to its customer: everything but the notification flag
OrderCore(order) == [order EXCEPT !.email_notification_failed = FALSE]

\* C17: a started notification task finds its order stored and the
\* create_order that placed it returned (its insert and all its decrements
\* done); and no step of a task, whatever the collaborator answers, changes a
\* product, a user, an order's items, total_amount or status, a request in
\* flight, or what a create_order in flight does next and returns
C17_NotificationIsolated ==
    /\ [](\A k \in OrderIds :
            mail[k].pc # "idle" =>
                /\ FindOrder(db, mail[k].order_id) # <<>>
                /\ \A p \in CreatesInFlight :
                      procs[p].order_id # mail[k].order_id)
    /\ [][mail' # mail =>
            /\ procs' = procs
            /\ tasks' = tasks
            /\ db'.products = db.products
            /\ db'.users = db.users
            /\ Len(db'.orders) = Len(db.orders)
            /\ \A j \in 1..Len(db.orders) :
                  OrderCore(db'.orders[j]) = OrderCore(db.orders[j])
            /\ \A p \in CreatesInFlight :
                  LET before == Step([db |-> db, tasks |-> tasks,
                                      fr |-> procs[p]])
                      after == Step([db |-> db', tasks |-> tasks,
                                     fr |-> procs[p]])
                  IN  /\ after.fr = before.fr
                      /\ after.tasks = before.tasks
                      /\ after.db.products = before.db.products]_vars

\* the first order's task has failed all its attempts and flagged the order
\* while the create_order of the second order is still decrementing stock
C17_Witness ==
    /\ Len(db.orders) = 2
    /\ db.orders[1].email_notification_failed
    /\ \E k \in OrderIds :
          mail[k].order_id = db.orders[1]._id /\ mail[k].pc = "done"
    /\ \E p \in CreatesInFlight :
          /\ procs[p].pc = "c_decrement"
          /\ procs[p].order_id = db.orders[2]._id

\* the claimed verdict on one requested line against the stock of d
LineInvalid(d, line) ==
    \/ line.product_id \notin DOMAIN d.products
    \/ d.products[line.product_id] <= 0
    \/ d.products[line.product_id] < line.quantity

Available(d, line) ==
    IF line.product_id \in DOMAIN d.products
    THEN d.products[line.product_id]
    ELSE 0

RECURSIVE ExpectedInvalid(_, _)
ExpectedInvalid(d, items) ==
    IF items = <<>> THEN <<>>
    ELSE (IF LineInvalid(d, Head(items))
          THEN <<[product_id |-> Head(items).product_id,
                  requested_quantity |-> Head(items).quantity,
                  available_quantity |-> Available(d, Head(items))]>>
          ELSE <<>>) \o ExpectedInvalid(d, Tail(items))

\* an entry of invalid_items without its message
Entry(x) ==
    [product_id |-> x.product_id, requested_quantity |-> x.requested_quantity,
     available_quantity |-> x.available_quantity]

\* C18: in every stock state reached and for every item list, validate_stock
\* answers valid exactly when invalid_items is empty; invalid_items holds, in
\* request order, one entry for each line whose product is missing
\* (available_quantity 0), has quantity <= 0 or has less than the requested
\* quantity, with the requested and the current quantity; the store is unchanged
C18_ValidatorResult ==
    \A items \in ValidatorInputs :
        LET r == Run([db |-> db, tasks |-> tasks,
                      fr |-> NewFrame("validate_stock", "v_validate",
                                      ValidateReq(items))])
            found == r.fr.invalid_items
        IN  /\ r.db = db
            /\ r.tasks = tasks
            /\ r.fr.resp.kind \in {"valid", "invalid"}
            /\ r.fr.resp.kind = "valid" <=> found = <<>>
            /\ [i \in 1..Len(found) |-> Entry(found[i])] =
                   ExpectedInvalid(db, items)

\* orders hold stock and the product's quantity is 1: a request of 2 units is
\* answered invalid with available 1 and requested 2, a request of 1 valid
C18_Witness ==
    /\ db.orders # <<>>
    /\ db.products["p1"] = 1
    /\ last.op = "validate_stock"
    /\ last.resp.kind = "invalid"
    /\ LET r == Run([db |-> db, tasks |-> tasks,
                     fr |-> NewFrame("validate_stock", "v_validate",
                                ValidateReq(<<[product_id |-> "p1",
                                               quantity |-> 2]>>))])
       IN  /\ Len(r.fr.invalid_items) = 1
           /\ r.fr.invalid_items[1].available_quantity = 1
           /\ r.fr.invalid_items[1].requested_quantity = 2

\* C19: interleaved create_order requests are each validated against the
\* stock they read and each stored order's decrement is applied in full, so
\* that with no request in flight every product's quantity is its initial
\* quantity minus the units of the stored orders, below 0 when two requests
\* for the last unit were both validated before either decremented
C19_LastUnitRace ==
    CreatesInFlight = {} =>
        \A pid \in Products :
            db.products[pid] = initial[pid] - HeldByOrders(db.orders, pid)

\* the product started with quantity 1, two orders of 1 unit each are stored,
\* both requests have returned and the quantity is -1
C19_Witness ==
    /\ initial["p1"] = 1
    /\ Len(db.orders) = 2
    /\ \A j \in 1..2 : db.orders[j].items = <<Line("p1", 1)>>
    /\ CreatesInFlight = {}
    /\ Len(tasks) = 2
    /\ db.products["p1"] = -1

\* C20: as claimed, in every interleaving of edits and status updates no step
\* taken while an order's stored status is shipped, delivered or cancelled
\* changes that order's items or total_amount
C20_NonEditableImmutable ==
    [][\A k \in 1..Len(db.orders) :
          db.orders[k].status \in {"shipped", "delivered", "cancelled"} =>
              /\ db'.orders[k].items = db.orders[k].items
              /\ db'.orders[k].total_amount = db.orders[k].total_amount]_vars

\* the edit of stored order k to items, run alone
EditWith(op, k, items) ==
    Run([db |-> db, tasks |-> tasks,
         fr |-> NewFrame(op, "e_load",
                         EditReq(db.orders[k]._id, items, Customer.email,
                                 Customer.password, <<>>))])

\* items asks of no product more than order holds of it
WithinHeld(order, items) ==
    \A pid \in Products :
        QuantityOf(items, pid) <= QuantityOf(order.items, pid)

\* C21: as claimed, with every product quantity >= 0, no edit of an editable
\* order to a list that asks of no product more than the order holds is
\* answered with a stock shortfall
C21_ReduceNeverShort ==
    \A k \in 1..Len(db.orders), op \in Edits, items \in SignedLists :
        (/\ Editable(db.orders[k].status)
         /\ \A pid \in Products : db.products[pid] >= 0
         /\ WithinHeld(db.orders[k], items))
            => EditWith(op, k, items).fr.resp.kind # "shortfall"

\* C22: as claimed, an edit that returns the error of a faulting store
\* operation leaves every product's quantity as it was before the call
C22_FaultCompensated ==
    [][(last'.op \in Edits /\ last'.resp.kind = "fault")
          => db'.products = db.products]_vars

\* C23: as claimed, an edit answered 'Order not found' leaves every product's
\* quantity as it was when the call began, also when delete_order removed the
\* order between the edit's load and its final update
C23_NotFoundNoSideEffects ==
    [][(last'.op \in Edits /\ last'.resp.kind = "not_found")
          => db'.products = db.products]_vars

\* C28: delete_order and update_order_status, a transition to cancelled
\* included, leave every product's quantity unchanged
C28_DeleteAndStatusKeepStock ==
    [][last'.op \in {"delete_order", "update_order_status"}
          => db'.products = db.products]_vars

\* an order holding stock was deleted after another was cancelled: the
\* quantity stays below the initial quantity minus what stored orders hold
C28_Witness ==
    /\ last.op = "delete_order"
    /\ last.resp.kind = "ok"
    /\ Len(db.orders) = 1
    /\ db.orders[1].status = "cancelled"
    /\ HeldByOrders(db.orders, "p1") >= 1
    /\ db.products["p1"] < initial["p1"] - HeldByOrders(db.orders, "p1")

\* the edits in flight whose next store operation is the order's update
EditsAtUpdate ==
    {p \in Procs : procs[p].op \in Edits /\ procs[p].pc = "e_update_order"}

\* C24: in every interleaving of a notification task with edits of the same
\* order, a step of the task changes nothing of an order but the failure
\* flag; the edit's update stores the edit's items and total_amount and
\* leaves the flag as it is; no step clears a flag that is set; so once the
\* task has written the flag the order is flagged, whatever edits do
C24_FlagAndEditKeepWrites ==
    /\ [](\A k \in OrderIds :
            (mail[k].pc = "done" /\ mail[k].flag = "ok") =>
                /\ FindOrder(db, mail[k].order_id) # <<>>
                /\ FindOrder(db, mail[k].order_id)[1].email_notification_failed)
    /\ [][/\ Len(db'.orders) >= Len(db.orders)
          /\ \A j \in 1..Len(db.orders) :
                /\ db'.orders[j]._id = db.orders[j]._id
                /\ db.orders[j].email_notification_failed
                      => db'.orders[j].email_notification_failed
                /\ mail' # mail
                      => OrderCore(db'.orders[j]) = OrderCore(db.orders[j])
          /\ \A p \in EditsAtUpdate :
                procs'[p] # procs[p] =>
                    LET before == FindOrder(db, procs[p].req.order_id)[1]
                        after == FindOrder(db', procs[p].req.order_id)[1]
                    IN  /\ after.items = procs[p].req.items
                        /\ after.total_amount = procs[p].total
                        /\ after.email_notification_failed
                              = before.email_notification_failed]_vars

\* an edit loaded the order before its task wrote the flag and has stored
\* its items since: the order carries the edit's items and total_amount,
\* different from the ones it was placed with, and the flag
C24_Witness ==
    \E p \in Procs, k \in OrderIds :
        /\ procs[p].op \in Edits
        /\ procs[p].pc = "e_reload"
        /\ mail[k].pc = "done"
        /\ mail[k].flag = "ok"
        /\ mail[k].order_id = procs[p].req.order_id
        /\ ~procs[p].order[1].email_notification_failed
        /\ procs[p].order[1].items # procs[p].req.items
        /\ LET order == FindOrder(db, procs[p].req.order_id)[1]
           IN  /\ order.email_notification_failed
               /\ order.items = procs[p].req.items
               /\ order.total_amount = procs[p].total

\* the request lists with a line whose product identifier is malformed
MalformedLists == {items \in AnyLists : \E i \in 1..Len(items) :
                                            ~ValidObjectId(items[i].product_id)}

\* a handler run on the stored state with the item list items
HandlerWith(op, k, items) ==
    CASE op \in Edits -> EditWith(op, k, items)
      [] op = "create_order" ->
             Run([db |-> db, tasks |-> tasks,
                  fr |-> NewFrame("create_order", "c_validate",
                                  CreateReq(Customer, items))])
      [] op = "validate_stock" ->
             Run([db |-> db, tasks |-> tasks,
                  fr |-> NewFrame("validate_stock", "v_validate",
                                  ValidateReq(items))])

\* C25: validate_stock, create_order, edit_order and admin_edit_order answer
\* a request with a malformed product identifier without an internal fault
\* (500) and without a store write
C25_MalformedIdDomainError ==
    \A op \in Edits \cup {"create_order", "validate_stock"},
       k \in OrderIds, items \in MalformedLists :
        (op \in Edits => FindOrder(db, k) # <<>>) =>
            LET r == HandlerWith(op, k, items)
            IN  /\ r.fr.resp.code # 500
                /\ r.db = db

\* C26: as claimed, once every request in flight has completed, every
\* product's quantity is its initial quantity minus what the stored orders
\* hold of it
C26_ConservationAtQuiescence ==
    Quiet =>
        \A pid \in Products :
            initial[pid] - HeldByOrders(db.orders, pid) = db.products[pid]

\* C27: as claimed, for every item list the model of the request accepts
\* (quantity any integer), a create_order answered 200 increases no product's
\* quantity, and every line item stored in an order has quantity >= 1
C27_OrderNeverAddsStock ==
    /\ [](\A j \in 1..Len(db.orders) :
            \A i \in 1..Len(db.orders[j].items) :
                db.orders[j].items[i].quantity >= 1)
    /\ [][(last'.op = "create_order" /\ last'.resp.code = 200) =>
            \A pid \in Products : db'.products[pid] <= db.products[pid]]_vars

\* C29: as claimed, no two user documents have the same email
C29_OneUserPerEmail ==
    \A i, j \in 1..Len(db.users) :
        db.users[i].email = db.users[j].email => i = j

\* the user documents with the given _id
UsersById(d, id) == SelectSeq(d.users, LAMBDA u : u._id = id)

\* C30: as claimed, every stored order's user_email is the email of the user
\* document its user_id identifies
C30_OrdersFollowOwner ==
    \A j \in 1..Len(db.orders) :
        LET owner == UsersById(db, db.orders[j].user_id)
        IN  /\ owner # <<>>
            /\ db.orders[j].user_email = owner[1].email

====
